---- MODULE Spec2Model ----
(***************************************************************************)
(* Model of build.js, the static link-card site builder: the link-list     *)
(* parser, slugify, the metadata scraper (both variants found in the       *)
(* source), the page renderer and the build orchestrator.                  *)
(*                                                                         *)
(* A JavaScript string is a sequence of one-character strings, so that     *)
(* trim, startsWith, replace, substring and includes are computed          *)
(* character by character.  In rendered pages the literal text of a        *)
(* template is kept as whole multi-character pieces, while interpolated    *)
(* text contributes its characters one by one: a one-character "<" in a    *)
(* page therefore always comes from interpolated data.                     *)
(***************************************************************************)
EXTENDS Integers, Sequences, FiniteSets, TLC

VARIABLES pc, variant, text, slug, reslug, content, collections,
          url, response, meta, ci, metadata, collMetadata, writes

vars == <<pc, variant, text, slug, reslug, content, collections,
          url, response, meta, ci, metadata, collMetadata, writes>>

(***************************************************************************)
(* Bounds of the model.                                                    *)
(***************************************************************************)
MaxSlugLen == 5
MaxParseLines == 5
MaxBuildLines == 3
MaxLead == 1

(***************************************************************************)
(* JavaScript string primitives.                                           *)
(***************************************************************************)
UpperLetters == <<"A", "B", "C", "D", "E", "F", "G", "H", "I", "J", "K", "L", "M", "N", "O", "P", "Q", "R", "S", "T", "U", "V", "W", "X", "Y", "Z">>
LowerLetters == <<"a", "b", "c", "d", "e", "f", "g", "h", "i", "j", "k", "l", "m", "n", "o", "p", "q", "r", "s", "t", "u", "v", "w", "x", "y", "z">>
Digits == <<"0", "1", "2", "3", "4", "5", "6", "7", "8", "9">>

Range(s) == {s[i] : i \in 1..Len(s)}

\* The character class \w of a JavaScript regular expression.
WordChars == Range(UpperLetters) \cup Range(LowerLetters) \cup Range(Digits) \cup {"_"}

\* The character class \s (the members that the model's alphabets can hold).
SpaceChars == {" ", "\t", "\n", "\r", "\f"}

toLowerCaseChar(c) ==
  IF c \in Range(UpperLetters)
  THEN LowerLetters[CHOOSE i \in 1..Len(UpperLetters) : UpperLetters[i] = c]
  ELSE c

toLowerCase(s) == [i \in 1..Len(s) |-> toLowerCaseChar(s[i])]

startsWith(s, p) == Len(s) >= Len(p) /\ SubSeq(s, 1, Len(p)) = p

\* s.substring(n) with n counted from 0.
substringFrom(s, n) == SubSeq(s, n + 1, Len(s))

\* s.substring(0, n).
substringTo(s, n) == SubSeq(s, 1, IF n < Len(s) THEN n ELSE Len(s))

\* s.includes(p).
includes(s, p) == \E i \in 0..(Len(s) - Len(p)) : SubSeq(s, i + 1, i + Len(p)) = p

\* s.replace(p, r) with a string pattern: the first occurrence only.
replaceFirst(s, p, r) ==
  IF includes(s, p)
  THEN LET i == CHOOSE k \in 0..(Len(s) - Len(p)) :
                  /\ SubSeq(s, k + 1, k + Len(p)) = p
                  /\ \A j \in 0..(k - 1) : SubSeq(s, j + 1, j + Len(p)) # p
       IN SubSeq(s, 1, i) \o r \o SubSeq(s, i + Len(p) + 1, Len(s))
  ELSE s

RECURSIVE trimStart(_)
trimStart(s) ==
  IF s # <<>> /\ Head(s) \in SpaceChars THEN trimStart(Tail(s)) ELSE s

RECURSIVE trimEnd(_)
trimEnd(s) ==
  IF s # <<>> /\ s[Len(s)] \in SpaceChars THEN trimEnd(SubSeq(s, 1, Len(s) - 1)) ELSE s

trim(s) == trimEnd(trimStart(s))

RECURSIVE dropWhileIn(_, _)
dropWhileIn(s, S) ==
  IF s # <<>> /\ Head(s) \in S THEN dropWhileIn(Tail(s), S) ELSE s

\* s.replace(/[S]+/g, r): every maximal run of characters of S becomes r.
RECURSIVE replaceRuns(_, _, _)
replaceRuns(s, S, r) ==
  IF s = <<>> THEN <<>>
  ELSE IF Head(s) \in S THEN r \o replaceRuns(dropWhileIn(Tail(s), S), S, r)
  ELSE <<Head(s)>> \o replaceRuns(Tail(s), S, r)

\* content.split(sep) for a one-character separator.
RECURSIVE split(_, _)
split(s, sep) ==
  IF \E i \in 1..Len(s) : s[i] = sep
  THEN LET i == CHOOSE k \in 1..Len(s) : s[k] = sep /\ \A j \in 1..(k - 1) : s[j] # sep
       IN <<SubSeq(s, 1, i - 1)>> \o split(SubSeq(s, i + 1, Len(s)), sep)
  ELSE <<s>>

RECURSIVE join(_, _)
join(ss, sep) ==
  IF ss = <<>> THEN <<>>
  ELSE IF Len(ss) = 1 THEN ss[1]
  ELSE ss[1] \o sep \o join(Tail(ss), sep)

\* All sequences over S of length at most n.
SeqsUpTo(S, n) == UNION {[1..k -> S] : k \in 0..n}

(***************************************************************************)
(* slugify                                                                 *)
(***************************************************************************)
\* A slugify whose author collapsed the hyphens before turning whitespace
\* into hyphens.
slugifyHyphensFirst(t) ==
  trim(replaceRuns(replaceRuns(
         SelectSeq(toLowerCase(t), LAMBDA c : c \in WordChars \cup SpaceChars \cup {"-"}),
         {"-"}, <<"-">>), SpaceChars, <<"-">>))

slugify(t) ==
  trim(replaceRuns(replaceRuns(
         SelectSeq(toLowerCase(t), LAMBDA c : c \in WordChars \cup SpaceChars \cup {"-"}),
         SpaceChars, <<"-">>), {"-"}, <<"-">>))

(***************************************************************************)
(* parseLinksFile                                                          *)
(***************************************************************************)
HeadingMarker == <<"#", " ">>
Http == <<"h", "t", "t", "p", ":", "/", "/">>
Https == <<"h", "t", "t", "p", "s", ":", "/", "/">>


\* The loop over the lines; current is <<>> for null, else <<the open collection>>.
RECURSIVE parseLoop(_, _, _)
parseLoop(lines, colls, current) ==
  IF lines = <<>> THEN colls \o current
  ELSE LET trimmed == trim(Head(lines)) IN
    IF startsWith(trimmed, HeadingMarker)
    THEN LET name == trim(substringFrom(trimmed, 2)) IN
         parseLoop(Tail(lines), colls \o current,
                   <<[name |-> name, slug |-> slugify(name), links |-> <<>>]>>)
    ELSE IF startsWith(trimmed, Http) \/ startsWith(trimmed, Https)
    THEN IF current # <<>>
         THEN parseLoop(Tail(lines), colls,
                        <<[current[1] EXCEPT !.links = Append(@, trimmed)]>>)
         ELSE parseLoop(Tail(lines), colls, current)
    ELSE parseLoop(Tail(lines), colls, current)

\* A parser that forgets to add the last collection after the loop.
parseLinksFileNoFlush(c) ==
  LET r == parseLoop(split(c, "\n"), <<>>, <<>>) IN SubSeq(r, 1, Len(r) - 1)

parseLinksFile(c) == parseLoop(split(c, "\n"), <<>>, <<>>)

(***************************************************************************)
(* new URL(url): the parts of a parsed URL that build.js reads.  The URLs  *)
(* of the model begin with http:// or https:// (the parser hands over no   *)
(* others) and carry no port, user info or extra slashes.  The authority   *)
(* runs to the first "/", "?" or "#"; the URL is invalid when it is empty  *)
(* or holds a forbidden host character.                                    *)
(***************************************************************************)
ForbiddenHostChars == {" ", "<", ">", "[", "]", "^", "|", "%", "@", ":", "\\"}

RECURSIVE takeUntilIn(_, _)
takeUntilIn(s, S) ==
  IF s = <<>> \/ Head(s) \in S THEN <<>> ELSE <<Head(s)>> \o takeUntilIn(Tail(s), S)

newURL(u) ==
  LET protocol == IF startsWith(u, Https) THEN <<"h", "t", "t", "p", "s", ":">> ELSE <<"h", "t", "t", "p", ":">>
      rest == substringFrom(u, Len(protocol) + 2)
      authority == takeUntilIn(rest, {"/", "?", "#"})
      hostname == toLowerCase(authority)
  IN [ok |-> /\ startsWith(u, Http) \/ startsWith(u, Https)
             /\ authority # <<>>
             /\ Range(authority) \cap ForbiddenHostChars = {},
      protocol |-> protocol,
      hostname |-> hostname,
      origin |-> protocol \o <<"/", "/">> \o hostname]

\* encodeURIComponent on a hostname: every character a host may hold is
\* unreserved except these, which are percent-encoded.
PercentCodes ==
  [c \in {"$", "&", "+", ",", ";", "="} |->
     CASE c = "$" -> <<"%", "2", "4">> [] c = "&" -> <<"%", "2", "6">> [] c = "+" -> <<"%", "2", "B">>
       [] c = "," -> <<"%", "2", "C">> [] c = ";" -> <<"%", "3", "B">> [] c = "=" -> <<"%", "3", "D">>]

RECURSIVE encodeURIComponent(_)
encodeURIComponent(s) ==
  IF s = <<>> THEN <<>>
  ELSE (IF Head(s) \in DOMAIN PercentCodes THEN PercentCodes[Head(s)] ELSE <<Head(s)>>)
       \o encodeURIComponent(Tail(s))

\* a || b on strings: undefined, null and '' are all falsy, and are all <<>> here.
Or(a, b) == IF a # <<>> THEN a ELSE b

(***************************************************************************)
(* isGenericDescription (variant A)                                        *)
(***************************************************************************)
MinDescriptionLength == 10
MaxDescriptionLength == 200

genericPhrases ==
  << <<"e", "n", "j", "o", "y", " ", "t", "h", "e", " ", "v", "i", "d", "e", "o", "s", " ", "a", "n", "d", " ", "m", "u", "s", "i", "c", " ", "y", "o", "u", " ", "l", "o", "v", "e">>,
     <<"s", "h", "a", "r", "e", " ", "i", "t", " ", "a", "l", "l", " ", "w", "i", "t", "h", " ", "f", "r", "i", "e", "n", "d", "s">>,
     <<"y", "o", "u", "t", "u", "b", "e">>,
     <<"u", "p", "l", "o", "a", "d", " ", "o", "r", "i", "g", "i", "n", "a", "l", " ", "c", "o", "n", "t", "e", "n", "t">>,
     <<"s", "h", "a", "r", "e", " ", "v", "i", "d", "e", "o", "s", " ", "w", "i", "t", "h", " ", "f", "r", "i", "e", "n", "d", "s", ",", " ", "f", "a", "m", "i", "l", "y", ",", " ", "a", "n", "d", " ", "t", "h", "e", " ", "w", "o", "r", "l", "d">> >>

isGenericDescription(description, u) ==
  IF description = <<>> THEN TRUE
  ELSE LET lowerDesc == toLowerCase(description) IN
    IF /\ includes(u, <<"y", "o", "u", "t", "u", "b", "e", ".", "c", "o", "m">>)
       /\ \E k \in 1..Len(genericPhrases) : includes(lowerDesc, genericPhrases[k])
    THEN TRUE
    ELSE Len(description) < MinDescriptionLength

(***************************************************************************)
(* findFirstImage (variant A).  An img element is the record of its src,   *)
(* data-src, width and height attributes (<<>> for a missing attribute).   *)
(***************************************************************************)
digitValue(c) == (CHOOSE i \in 1..Len(Digits) : Digits[i] = c) - 1

RECURSIVE digitsValue(_, _)
digitsValue(s, acc) ==
  IF s = <<>> \/ Head(s) \notin Range(Digits) THEN acc
  ELSE digitsValue(Tail(s), acc * 10 + digitValue(Head(s)))

\* parseInt(s) || 0: leading whitespace, an optional sign, the leading digits;
\* NaN (no digit) becomes 0.
parseIntOrZero(s) ==
  LET t == trimStart(s) IN
  IF t # <<>> /\ Head(t) = "-" THEN 0 - digitsValue(Tail(t), 0)
  ELSE IF t # <<>> /\ Head(t) = "+" THEN digitsValue(Tail(t), 0)
  ELSE digitsValue(t, 0)

MinImageSize == 100

\* The code's "make URL absolute" and "force HTTPS" steps in findFirstImage.
absoluteImageSrc(src, urlObj) ==
  LET abs == IF startsWith(src, <<"/", "/">>) THEN <<"h", "t", "t", "p", "s", ":">> \o src
             ELSE IF startsWith(src, <<"/">>) THEN urlObj.origin \o src
             ELSE IF ~startsWith(src, <<"h", "t", "t", "p">>) THEN urlObj.origin \o <<"/">> \o src
             ELSE src
  IN IF startsWith(abs, Http) THEN replaceFirst(abs, Http, Https) ELSE abs

RECURSIVE findFirstImage(_, _)
findFirstImage(imgs, u) ==
  IF imgs = <<>> THEN <<>>
  ELSE LET img == Head(imgs)
           src == Or(img.src, img.dataSrc)
           width == parseIntOrZero(img.width)
           height == parseIntOrZero(img.height)
       IN IF src = <<>> THEN findFirstImage(Tail(imgs), u)
          ELSE IF width > 0 /\ height > 0 /\ (width < MinImageSize \/ height < MinImageSize)
          THEN findFirstImage(Tail(imgs), u)
          ELSE IF includes(src, <<"i", "c", "o", "n">>) \/ includes(src, <<"l", "o", "g", "o">>) \/ includes(src, <<"a", "v", "a", "t", "a", "r">>)
          THEN findFirstImage(Tail(imgs), u)
          ELSE absoluteImageSrc(src, newURL(u))

(***************************************************************************)
(* scrapeMetadata.  A response is the outcome of the fetch and, when the   *)
(* fetch succeeded, the page: the contents of the tags the selectors read. *)
(***************************************************************************)
Ellipsis == <<".", ".", ".">>
PlaceholderPrefix == <<"h", "t", "t", "p", "s", ":", "/", "/", "v", "i", "a", ".", "p", "l", "a", "c", "e", "h", "o", "l", "d", "e", "r", ".", "c", "o", "m", "/", "4", "0", "0", "x", "2", "0", "0", "/", "f", "5", "f", "5", "f", "5", "/", "6", "6", "6", "6", "6", "6", "?", "t", "e", "x", "t", "=">>

extractTitle(page, u) ==
  Or(page.ogTitle, Or(page.twTitle, Or(page.docTitle, newURL(u).hostname)))

extractDescription(page) ==
  Or(page.ogDesc, Or(page.twDesc, Or(page.metaDesc, <<>>)))

extractImage(page) == Or(page.ogImage, Or(page.twImage, <<>>))

placeholderImage(u) ==
  PlaceholderPrefix \o encodeURIComponent(replaceFirst(newURL(u).hostname, <<"w", "w", "w", ".">>, <<>>))

\* "Make image URL absolute if it's relative": schemeRelative is what a
\* reference that begins with // is prefixed with.
makeAbsolute(image, urlObj, schemeRelative) ==
  IF image # <<>> /\ ~startsWith(image, <<"h", "t", "t", "p">>)
  THEN IF startsWith(image, <<"/", "/">>) THEN schemeRelative \o image
       ELSE IF startsWith(image, <<"/">>) THEN urlObj.origin \o image
       ELSE urlObj.origin \o <<"/">> \o image
  ELSE image

forceHttps(image) ==
  IF image # <<>> /\ startsWith(image, Http) THEN replaceFirst(image, Http, Https) ELSE image

truncateDescription(description) ==
  IF Len(description) > MaxDescriptionLength
  THEN substringTo(description, MaxDescriptionLength) \o Ellipsis
  ELSE description

Returned(u, title, description, image, success) ==
  [kind |-> "return", url |-> u, title |-> title, description |-> description,
   image |-> image, success |-> success]

\* The promise is rejected: the exception left scrapeMetadata.
Thrown(u) ==
  [kind |-> "throw", url |-> u, title |-> <<>>, description |-> <<>>,
   image |-> <<>>, success |-> FALSE]

\* The try block of variant A after a successful fetch.
scrapeSuccessA(u, page) ==
  LET title == extractTitle(page, u)
      description == extractDescription(page)
      tagImage == extractImage(page)
      found == IF tagImage = <<>> THEN findFirstImage(page.imgs, u) ELSE tagImage
      absolute == forceHttps(makeAbsolute(found, newURL(u), <<"h", "t", "t", "p", "s", ":">>))
      image == IF absolute = <<>> THEN placeholderImage(u) ELSE absolute
      kept == IF isGenericDescription(description, u) THEN <<>> ELSE description
  IN Returned(u, trim(title), trim(truncateDescription(kept)), image, TRUE)

\* The try block of variant B after a successful fetch.
scrapeSuccessB(u, page) ==
  LET title == extractTitle(page, u)
      description == extractDescription(page)
      image == makeAbsolute(extractImage(page), newURL(u), newURL(u).protocol)
  IN Returned(u, trim(title), trim(truncateDescription(description)), image, TRUE)

\* The catch block: new URL(url) is evaluated again and throws for a URL
\* that does not parse.
scrapeCatch(v, u) ==
  IF ~newURL(u).ok THEN Thrown(u)
  ELSE IF v = "A"
  THEN Returned(u, replaceFirst(newURL(u).hostname, <<"w", "w", "w", ".">>, <<>>), <<>>,
                placeholderImage(u), FALSE)
  ELSE Returned(u, newURL(u).hostname, <<>>, <<>>, FALSE)

scrapeMetadata(v, u, r) ==
  IF r.outcome = "ok"
  THEN IF v = "A" THEN scrapeSuccessA(u, r.page) ELSE scrapeSuccessB(u, r.page)
  ELSE scrapeCatch(v, u)

NoPage ==
  [ogTitle |-> <<>>, twTitle |-> <<>>, docTitle |-> <<>>,
   ogDesc |-> <<>>, twDesc |-> <<>>, metaDesc |-> <<>>,
   ogImage |-> <<>>, twImage |-> <<>>, imgs |-> <<>>]

\* What fetch can do with a URL: a URL that does not parse makes fetch throw;
\* any other fetch succeeds with some page or fails.
FetchOutcomes(u, pages) ==
  IF newURL(u).ok
  THEN {[outcome |-> "ok", page |-> p] : p \in pages}
       \cup {[outcome |-> o, page |-> NoPage] : o \in {"network", "timeout", "status"}}
  ELSE {[outcome |-> "malformed", page |-> NoPage]}

(***************************************************************************)
(* escapeHtml, generateHomePage, generateCollectionPage.  A page is a      *)
(* sequence: each literal stretch of the template is one piece, each       *)
(* interpolated string contributes its characters.                         *)
(***************************************************************************)
escapeHtmlChar(c) ==
  CASE c = "&" -> <<"&", "a", "m", "p", ";">>
    [] c = "<" -> <<"&", "l", "t", ";">>
    [] c = ">" -> <<"&", "g", "t", ";">>
    [] c = "\"" -> <<"&", "q", "u", "o", "t", ";">>
    [] c = "'" -> <<"&", "#", "0", "3", "9", ";">>
    [] OTHER -> <<c>>

RECURSIVE escapeHtml(_)
escapeHtml(t) ==
  IF t = <<>> THEN <<>> ELSE escapeHtmlChar(Head(t)) \o escapeHtml(Tail(t))

\* The decimal digits of a number, as `${n}` prints it.
RECURSIVE toDecimal(_)
toDecimal(n) ==
  IF n < 10 THEN <<Digits[n + 1]>> ELSE toDecimal(n \div 10) \o <<Digits[(n % 10) + 1]>>

PageHead == "<!DOCTYPE html>\n<html lang=\"en\">\n<head>\n  <meta charset=\"UTF-8\">\n  <meta name=\"viewport\" content=\"width=device-width, initial-scale=1.0\">\n  <title>"
PageTail == "\n    </div>\n  </div>\n</body>\n</html>"

homeLink(col) ==
  <<"\n        <a href=\"">> \o col.slug
  \o <<".html\" class=\"collection-link\">\n          <h2>">> \o col.name
  \o <<"</h2>\n          <span class=\"link-count\">">> \o toDecimal(Len(col.links))
  \o <<" resources</span>\n        </a>\n      ">>

\* collections.map(col => ...).join('')
RECURSIVE homeLinks(_)
homeLinks(colls) ==
  IF colls = <<>> THEN <<>> ELSE homeLink(Head(colls)) \o homeLinks(Tail(colls))

generateHomePage(colls) ==
  <<PageHead, "Resource Collections</title>\n  <link rel=\"stylesheet\" href=\"style.css\">\n</head>\n<body>\n  <div class=\"container\">\n    <header>\n      <h1>Resource Collections</h1>\n    </header>\n    \n    <div class=\"collections-list\">\n      ">>
  \o homeLinks(colls)
  \o <<PageTail>>

\* meta.url.replace(/^https?:\/\/(www\.)?/, '').replace(/\/$/, '')
displayUrl(u) ==
  LET noScheme == IF startsWith(u, Https) THEN substringFrom(u, Len(Https))
                  ELSE IF startsWith(u, Http) THEN substringFrom(u, Len(Http))
                  ELSE u
      noWww == IF noScheme # u /\ startsWith(noScheme, <<"w", "w", "w", ".">>)
               THEN substringFrom(noScheme, 4) ELSE noScheme
  IN IF noWww # <<>> /\ noWww[Len(noWww)] = "/" THEN SubSeq(noWww, 1, Len(noWww) - 1)
     ELSE noWww

cardA(m) ==
  <<"\n    <a href=\"">> \o m.url
  \o <<"\" target=\"_blank\" rel=\"noopener noreferrer\" class=\"card\">\n      <div class=\"card-image\" style=\"background-image: url('">>
  \o m.image
  \o <<"')\"></div>\n      <div class=\"card-content\">\n        <h3 class=\"card-title\">">>
  \o escapeHtml(m.title)
  \o <<"</h3>\n        ">>
  \o (IF ~(includes(m.url, <<"y", "o", "u", "t", "u", "b", "e", ".", "c", "o", "m">>) \/ includes(m.url, <<"y", "o", "u", "t", "u", ".", "b", "e">>))
      THEN <<"<p class=\"card-url\">">> \o escapeHtml(displayUrl(m.url)) \o <<"</p>">>
      ELSE <<>>)
  \o <<"\n      </div>\n    </a>\n  ">>

cardB(m) ==
  <<"\n    <a href=\"">> \o m.url
  \o <<"\" target=\"_blank\" rel=\"noopener noreferrer\" class=\"card\">\n      ">>
  \o (IF m.image # <<>>
      THEN <<"<div class=\"card-image\" style=\"background-image: url('">> \o m.image
           \o <<"')\"></div>">>
      ELSE <<"<div class=\"card-image card-no-image\"></div>">>)
  \o <<"\n      <div class=\"card-content\">\n        <h3 class=\"card-title\">">>
  \o escapeHtml(m.title)
  \o <<"</h3>\n        ">>
  \o (IF m.description # <<>>
      THEN <<"<p class=\"card-description\">">> \o escapeHtml(m.description) \o <<"</p>">>
      ELSE <<>>)
  \o <<"\n      </div>\n    </a>\n  ">>

\* allMetadata.map(meta => ...).join('')
RECURSIVE cards(_, _)
cards(v, allMetadata) ==
  IF allMetadata = <<>> THEN <<>>
  ELSE (IF v = "A" THEN cardA(Head(allMetadata)) ELSE cardB(Head(allMetadata)))
       \o cards(v, Tail(allMetadata))

generateCollectionPage(v, collection, allMetadata) ==
  <<PageHead>> \o collection.name
  \o <<"</title>\n  <link rel=\"stylesheet\" href=\"style.css\">\n</head>\n<body>\n  <div class=\"container\">\n    <header>\n      <a href=\"index.html\" class=\"back-link\">Back to Collections</a>\n      <h1>">>
  \o collection.name
  \o <<"</h1>\n    </header>\n    \n    <div class=\"cards-grid\">\n      ">>
  \o cards(v, allMetadata)
  \o <<PageTail>>

(***************************************************************************)
(* Values of the variables a specification does not use.                   *)
(***************************************************************************)
NoMeta == [kind |-> "none", url |-> <<>>, title |-> <<>>, description |-> <<>>,
           image |-> <<>>, success |-> FALSE]
NoResponse == [outcome |-> "none", page |-> NoPage]

SlugIdle == text = <<>> /\ slug = <<>> /\ reslug = <<>>
ParseIdle == content = <<>> /\ collections = <<>>
ScrapeIdle == url = <<>> /\ response = NoResponse /\ meta = NoMeta
BuildIdle == ci = 0 /\ metadata = <<>> /\ collMetadata = <<>> /\ writes = <<>>

(***************************************************************************)
(* SpecSlug: slugify applied to a name, and again to its own result.       *)
(***************************************************************************)
SlugAlphabet == {"A", "b", "1", "_", " ", "\t", "-", "!"}

InitSlug ==
  /\ pc = "slug_input"
  /\ variant = "A"
  /\ text \in SeqsUpTo(SlugAlphabet, MaxSlugLen)
  /\ slug = <<>> /\ reslug = <<>>
  /\ ParseIdle /\ ScrapeIdle /\ BuildIdle

SlugifyOnce ==
  /\ pc = "slug_input"
  /\ slug' = slugify(text)
  /\ pc' = "slug_once"
  /\ UNCHANGED <<variant, text, reslug, content, collections, url, response, meta,
                 ci, metadata, collMetadata, writes>>

SlugifyAgain ==
  /\ pc = "slug_once"
  /\ reslug' = slugify(slug)
  /\ pc' = "slug_twice"
  /\ UNCHANGED <<variant, text, slug, content, collections, url, response, meta,
                 ci, metadata, collMetadata, writes>>

NextSlug == SlugifyOnce \/ SlugifyAgain

SpecSlug == InitSlug /\ [][NextSlug]_vars

(***************************************************************************)
(* SpecParse: parseLinksFile applied to the text of a link file.           *)
(***************************************************************************)
ParseLineSet ==
  { <<"#", " ", "x">>, <<" ", "#", " ", "y", "\r">>, <<"#", "x">>, <<"#", " ">>, <<"h", "t", "t", "p", ":", "/", "/", "a">>, <<" ", "h", "t", "t", "p", "s", ":", "/", "/", "b">>,
    <<"x", " ", "h", "t", "t", "p", ":", "/", "/", "c">>, <<>> }

InitParse ==
  /\ pc = "parse_input"
  /\ variant = "A"
  /\ content \in {join(ls, <<"\n">>) : ls \in SeqsUpTo(ParseLineSet, MaxParseLines)}
  /\ collections = <<>>
  /\ SlugIdle /\ ScrapeIdle /\ BuildIdle

ParseFile ==
  /\ pc = "parse_input"
  /\ collections' = parseLinksFile(content)
  /\ pc' = "parse_done"
  /\ UNCHANGED <<variant, text, slug, reslug, content, url, response, meta,
                 ci, metadata, collMetadata, writes>>

NextParse == ParseFile

SpecParse == InitParse /\ [][NextParse]_vars

(***************************************************************************)
(* SpecScrape: one call of scrapeMetadata, in either variant: the fetch,   *)
(* then the rest of the try block or the catch block.                      *)
(***************************************************************************)
ScrapeUrls ==
  { <<"h", "t", "t", "p", "s", ":", "/", "/", "a", ".", "c", "o">>, <<"h", "t", "t", "p", ":", "/", "/", "a", ".", "c", "o", "/", "p">>, <<"h", "t", "t", "p", "s", ":", "/", "/", "w", "w", "w", ".", "a", ".", "c", "o">>,
    <<"h", "t", "t", "p", "s", ":", "/", "/", "y", "o", "u", "t", "u", "b", "e", ".", "c", "o", "m", "/", "w">>, <<"h", "t", "t", "p", "s", ":", "/", "/">>, <<"h", "t", "t", "p", ":", "/", "/", "a", " ", "b">> }

\* A text of n characters that begins with lead spaces.
Padded(lead, n) == [i \in 1..n |-> IF i <= lead THEN " " ELSE "x"]

TitleParts ==
  [ogTitle : {<<>>, <<" ">>, <<"O", "g">>}, twTitle : {<<>>, <<"T", "w">>},
   docTitle : {<<>>, <<" ">>, <<" ", "D", "o", "c", " ">>}]

DescParts ==
  [ogDesc : {<<>>, <<"s", "h", "o", "r", "t">>, <<"E", "n", "j", "o", "y", " ", "t", "h", "e", " ", "v", "i", "d", "e", "o", "s", " ", "a", "n", "d", " ", "m", "u", "s", "i", "c", " ", "y", "o", "u", " ", "l", "o", "v", "e">>}
            \cup {Padded(0, n) : n \in {10, 200, 201}}
            \cup {Padded(l, 203) : l \in 0..MaxLead},
   twDesc : {<<>>, <<"t", "w", "i", "t", "t", "e", "r", " ", "t", "e", "x", "t">>},
   metaDesc : {<<>>, <<"m", "e", "t", "a", " ", "t", "e", "x", "t", " ">> \o Padded(0, 200)}]

Img(src, dataSrc, width, height) ==
  [src |-> src, dataSrc |-> dataSrc, width |-> width, height |-> height]

ImageParts ==
  [ogImage : {<<>>, <<"/", "/", "c", ".", "c", "o", "/", "i">>, <<"/", "i">>, <<"i">>, <<"h", "t", "t", "p", ":", "/", "/", "c", ".", "c", "o", "/", "i">>,
              <<"h", "t", "t", "p", "s", ":", "/", "/", "c", ".", "c", "o", "/", "i">>, <<"h", "t", "t", "p", "i">>},
   twImage : {<<>>, <<"/", "t">>},
   imgs : { <<>>,
            <<Img(<<"/", "i", "c", "o", "n", ".", "p", "n", "g">>, <<>>, <<>>, <<>>), Img(<<"p", ".", "p", "n", "g">>, <<>>, <<>>, <<>>)>>,
            <<Img(<<"/", "s", ".", "p", "n", "g">>, <<>>, <<"5", "0">>, <<"3", "0", "0">>),
              Img(<<>>, <<"h", "t", "t", "p", ":", "/", "/", "c", ".", "c", "o", "/", "d">>, <<"1", "0", "0">>, <<"1", "0", "0", "p", "x">>)>>,
            <<Img(<<>>, <<>>, <<>>, <<>>), Img(<<"/", "l", "o", "g", "o">>, <<>>, <<>>, <<>>)>> }]

PlainTitles == {t \in TitleParts : t.twTitle = <<>> /\ t.docTitle = <<>> /\ t.ogTitle # <<" ">>}
PlainDescs == {d \in DescParts : d.twDesc = <<>> /\ d.metaDesc = <<>> /\ Len(d.ogDesc) <= 5}
PlainImages == {i \in ImageParts : i.twImage = <<>> /\ i.imgs = <<>> /\ Len(i.ogImage) <= 1}

\* The pages of the model: one of the three groups of tags takes every
\* combination of its values while the other two stay plain.
ScrapePages ==
  {t @@ d @@ i : t \in TitleParts, d \in PlainDescs, i \in PlainImages}
  \cup {t @@ d @@ i : t \in PlainTitles, d \in DescParts, i \in PlainImages}
  \cup {t @@ d @@ i : t \in PlainTitles, d \in PlainDescs, i \in ImageParts}

InitScrape ==
  /\ pc = "scrape_call"
  /\ variant \in {"A", "B"}
  /\ url \in ScrapeUrls
  /\ response = NoResponse /\ meta = NoMeta
  /\ SlugIdle /\ ParseIdle /\ BuildIdle

\* await fetch(url, ...), with the response.ok test and response.text().
Fetch ==
  /\ pc = "scrape_call"
  /\ response' \in FetchOutcomes(url, ScrapePages)
  /\ pc' = "scrape_fetched"
  /\ UNCHANGED <<variant, text, slug, reslug, content, collections, url, meta,
                 ci, metadata, collMetadata, writes>>

\* The call returns a record.
ScrapeReturn ==
  /\ pc = "scrape_fetched"
  /\ scrapeMetadata(variant, url, response).kind = "return"
  /\ meta' = scrapeMetadata(variant, url, response)
  /\ pc' = "scrape_returned"
  /\ UNCHANGED <<variant, text, slug, reslug, content, collections, url, response,
                 ci, metadata, collMetadata, writes>>

\* The call throws out of its catch block.
ScrapeThrow ==
  /\ pc = "scrape_fetched"
  /\ scrapeMetadata(variant, url, response).kind = "throw"
  /\ meta' = scrapeMetadata(variant, url, response)
  /\ pc' = "scrape_thrown"
  /\ UNCHANGED <<variant, text, slug, reslug, content, collections, url, response,
                 ci, metadata, collMetadata, writes>>

NextScrape == Fetch \/ ScrapeReturn \/ ScrapeThrow

SpecScrape == InitScrape /\ [][NextScrape]_vars

(***************************************************************************)
(* SpecBuild: one run of build(), in either variant: parse the link file,  *)
(* fetch every link of every collection in order, write the home page,     *)
(* one page per collection and the stylesheet.                             *)
(***************************************************************************)
BuildLineSet ==
  { <<"#", " ", "T">>, <<"#", " ", "t">>, <<"#", " ", "i", "n", "d", "e", "x">>, <<"#", " ", "<", ">">>,
    <<"h", "t", "t", "p", "s", ":", "/", "/", "a", ".", "c", "o">>, <<"h", "t", "t", "p", "s", ":", "/", "/">>, <<"h", "t", "t", "p", ":", "/", "/", "w", "w", "w", ".", "b", ".", "c", "o", "/", "?", "q", "&", "r">> }

BuildPages ==
  { NoPage,
    [NoPage EXCEPT !.ogTitle = <<"<", "b", ">">>, !.ogDesc = <<"\"", "a", "\"", " ", "&", " ", "'", "b", "'", " ", ">", " ", "c">>,
                   !.ogImage = <<"/", "i", ".", "p", "n", "g">>] }

InitBuild ==
  /\ pc = "build_start"
  /\ variant \in {"A", "B"}
  /\ content \in {join(ls, <<"\n">>) : ls \in SeqsUpTo(BuildLineSet, MaxBuildLines)}
  /\ collections = <<>>
  /\ SlugIdle /\ ScrapeIdle /\ BuildIdle

\* const collections = parseLinksFile('links.md')
BuildParse ==
  /\ pc = "build_start"
  /\ collections' = parseLinksFile(content)
  /\ ci' = 1 /\ metadata' = <<>>
  /\ pc' = "build_fetch"
  /\ UNCHANGED <<variant, text, slug, reslug, content, url, response, meta,
                 collMetadata, writes>>

\* The link the fetch loop is at.
CurrentLink == collections[ci].links[Len(metadata) + 1]

\* const meta = await scrapeMetadata(url); metadata.push(meta); and the pause.
FetchLink ==
  /\ pc = "build_fetch"
  /\ ci <= Len(collections)
  /\ Len(metadata) < Len(collections[ci].links)
  /\ \E r \in FetchOutcomes(CurrentLink, BuildPages) :
       /\ scrapeMetadata(variant, CurrentLink, r).kind = "return"
       /\ metadata' = Append(metadata, scrapeMetadata(variant, CurrentLink, r))
  /\ UNCHANGED <<pc, variant, text, slug, reslug, content, collections, url, response,
                 meta, ci, collMetadata, writes>>

\* scrapeMetadata throws: build() rejects, and the process exits with status 1.
FetchLinkThrows ==
  /\ pc = "build_fetch"
  /\ ci <= Len(collections)
  /\ Len(metadata) < Len(collections[ci].links)
  /\ \E r \in FetchOutcomes(CurrentLink, BuildPages) :
       scrapeMetadata(variant, CurrentLink, r).kind = "throw"
  /\ pc' = "build_failed"
  /\ UNCHANGED <<variant, text, slug, reslug, content, collections, url, response,
                 meta, ci, metadata, collMetadata, writes>>

\* collection.metadata = metadata, at the end of a collection's links.
AttachMetadata ==
  /\ pc = "build_fetch"
  /\ ci <= Len(collections)
  /\ Len(metadata) = Len(collections[ci].links)
  /\ collMetadata' = Append(collMetadata, metadata)
  /\ metadata' = <<>>
  /\ ci' = ci + 1
  /\ UNCHANGED <<pc, variant, text, slug, reslug, content, collections, url, response,
                 meta, writes>>

\* fs.writeFileSync('dist/index.html', homePage), after the directory is made.
WriteHomePage ==
  /\ pc = "build_fetch"
  /\ ci > Len(collections)
  /\ writes' = Append(writes, [path |-> <<"d", "i", "s", "t", "/", "i", "n", "d", "e", "x", ".", "h", "t", "m", "l">>,
                               data |-> generateHomePage(collections)])
  /\ ci' = 1
  /\ pc' = "build_pages"
  /\ UNCHANGED <<variant, text, slug, reslug, content, collections, url, response,
                 meta, metadata, collMetadata>>

\* fs.writeFileSync(`dist/${collection.slug}.html`, collectionPage)
WriteCollectionPage ==
  /\ pc = "build_pages"
  /\ ci <= Len(collections)
  /\ writes' = Append(writes,
                 [path |-> <<"d", "i", "s", "t", "/">> \o collections[ci].slug \o <<".", "h", "t", "m", "l">>,
                  data |-> generateCollectionPage(variant, collections[ci], collMetadata[ci])])
  /\ ci' = ci + 1
  /\ UNCHANGED <<pc, variant, text, slug, reslug, content, collections, url, response,
                 meta, metadata, collMetadata>>

\* fs.copyFileSync('src/style.css', 'dist/style.css')
CopyStylesheet ==
  /\ pc = "build_pages"
  /\ ci > Len(collections)
  /\ writes' = Append(writes, [path |-> <<"d", "i", "s", "t", "/", "s", "t", "y", "l", "e", ".", "c", "s", "s">>, data |-> <<"src/style.css">>])
  /\ pc' = "build_done"
  /\ UNCHANGED <<variant, text, slug, reslug, content, collections, url, response,
                 meta, ci, metadata, collMetadata>>

NextBuild ==
  \/ BuildParse \/ FetchLink \/ FetchLinkThrows \/ AttachMetadata
  \/ WriteHomePage \/ WriteCollectionPage \/ CopyStylesheet

SpecBuild == InitBuild /\ [][NextBuild]_vars

(***************************************************************************)
(* Claims about slugify.                                                   *)
(***************************************************************************)
LowerWordChars == Range(LowerLetters) \cup Range(Digits) \cup {"_"}

\* C5: slugify always yields only lowercase word characters and hyphens,
\* with no leading hyphen and no trailing hyphen.
C5_SlugWellFormed ==
  pc \in {"slug_once", "slug_twice"} =>
    /\ Range(slug) \subseteq LowerWordChars \cup {"-"}
    /\ slug # <<>> => (Head(slug) # "-" /\ slug[Len(slug)] # "-")

\* C9: slugify is idempotent: slugify(slugify(x)) = slugify(x).
C9_SlugIdempotent == pc = "slug_twice" => reslug = slug

\* C9 witness: a name that slugify really changed (lower-cased, stripped and
\* hyphenated) has been slugified twice.
C9_Witness ==
  /\ pc = "slug_twice"
  /\ "A" \in Range(text) /\ "!" \in Range(text) /\ " " \in Range(text)
  /\ "-" \in Range(slug) /\ "a" \in Range(slug)

(***************************************************************************)
(* Claims about parseLinksFile.                                            *)
(***************************************************************************)
IsHeadingLine(l) == startsWith(trim(l), HeadingMarker)
IsLinkLine(l) ==
  ~IsHeadingLine(l) /\ (startsWith(trim(l), Http) \/ startsWith(trim(l), Https))
HeadingIndexes(lines) == {i \in 1..Len(lines) : IsHeadingLine(lines[i])}
\* The line number of the k-th heading.
KthHeading(lines, k) ==
  CHOOSE i \in HeadingIndexes(lines) :
    Cardinality({j \in HeadingIndexes(lines) : j < i}) = k - 1
\* The line number just past the section the k-th heading opens.
SectionEnd(lines, k) ==
  IF k < Cardinality(HeadingIndexes(lines)) THEN KthHeading(lines, k + 1)
  ELSE Len(lines) + 1
SectionLinks(lines, k) ==
  LET body == SubSeq(lines, KthHeading(lines, k) + 1, SectionEnd(lines, k) - 1)
      links == SelectSeq(body, IsLinkLine)
  IN [i \in 1..Len(links) |-> trim(links[i])]

\* C8: parseLinksFile returns exactly one collection per heading line, in file
\* order, each holding the link lines of its section; link lines before the
\* first heading belong to no collection.
C8_OneCollectionPerHeading ==
  pc = "parse_done" =>
    LET lines == split(content, "\n") IN
    /\ Len(collections) = Cardinality(HeadingIndexes(lines))
    /\ \A k \in 1..Len(collections) :
         /\ collections[k].name = trim(substringFrom(trim(lines[KthHeading(lines, k)]), 2))
         /\ collections[k].links = SectionLinks(lines, k)

\* C8 witness: a file with a link line before its first heading, two headings
\* and a link in the last section has been parsed.
C8_Witness ==
  /\ pc = "parse_done"
  /\ LET lines == split(content, "\n") IN
       /\ Cardinality(HeadingIndexes(lines)) = 2
       /\ \E i \in 1..Len(lines) : IsLinkLine(lines[i]) /\ i < KthHeading(lines, 1)
       /\ \E i \in 1..Len(lines) : IsLinkLine(lines[i]) /\ i > KthHeading(lines, 2)
  /\ Len(collections) = 2
  /\ Len(collections[2].links) = 1

(***************************************************************************)
(* Claims about scrapeMetadata.                                            *)
(***************************************************************************)
ScrapeEnded == pc \in {"scrape_returned", "scrape_thrown"}

\* The no-image fallback of a variant: the placeholder URL that encodes the
\* hostname (variant A) or the empty string (variant B).
NoImageFallback(v, u) == IF v = "A" THEN placeholderImage(u) ELSE <<>>

\* C1: scrapeMetadata never raises: after any failure of the fetch (network
\* error, timeout, non-2xx status, malformed URL) it returns the fallback
\* record: title = the URL's hostname (variant A shows it without "www."),
\* description = '', image = the variant's no-image fallback, success = false.
C1_FailureYieldsFallback ==
  (ScrapeEnded /\ response.outcome # "ok") =>
    /\ meta.kind = "return"
    /\ meta.success = FALSE
    /\ meta.description = <<>>
    /\ meta.title \in {newURL(url).hostname, replaceFirst(newURL(url).hostname, <<"w", "w", "w", ".">>, <<>>)}
    /\ meta.image = NoImageFallback(variant, url)

\* C2: the title of the record scrapeMetadata returns is never the empty
\* string, whatever the fetch did.
C2_TitleNeverEmpty == meta.kind = "return" => meta.title # <<>>

\* C6: after a successful fetch whose extracted description is longer than
\* 200 characters (and, in variant A, survives sanitization) the returned
\* description ends in '...' and the part before it has exactly 200 characters.
C6_TruncatedDescription ==
  (/\ pc = "scrape_returned" /\ response.outcome = "ok"
   /\ Len(extractDescription(response.page)) > 200
   /\ variant = "A" => ~isGenericDescription(extractDescription(response.page), url))
  => /\ Len(meta.description) = 200 + Len(Ellipsis)
     /\ substringFrom(meta.description, 200) = Ellipsis

\* The image reference a successful scrape finds: a tag's, else (variant A) a
\* usable inline image's src.
RECURSIVE FirstUsableSrc(_)
FirstUsableSrc(imgs) ==
  IF imgs = <<>> THEN <<>>
  ELSE LET src == Or(Head(imgs).src, Head(imgs).dataSrc)
           w == parseIntOrZero(Head(imgs).width)
           h == parseIntOrZero(Head(imgs).height)
       IN IF \/ src = <<>>
             \/ (w > 0 /\ h > 0 /\ (w < 100 \/ h < 100))
             \/ \E word \in {<<"i", "c", "o", "n">>, <<"l", "o", "g", "o">>, <<"a", "v", "a", "t", "a", "r">>} : includes(src, word)
          THEN FirstUsableSrc(Tail(imgs))
          ELSE src

FoundImageReference(v, page) ==
  IF extractImage(page) # <<>> THEN extractImage(page)
  ELSE IF v = "A" THEN FirstUsableSrc(page.imgs) ELSE <<>>

\* The normalisation the claim describes.
NormalizedReference(ref, origin) ==
  LET abs == IF startsWith(ref, <<"/", "/">>) THEN <<"h", "t", "t", "p", "s", ":">> \o ref
             ELSE IF startsWith(ref, <<"/">>) THEN origin \o ref
             ELSE IF startsWith(ref, Http) \/ startsWith(ref, Https) THEN ref
             ELSE origin \o <<"/">> \o ref
  IN IF startsWith(abs, Http) THEN Https \o substringFrom(abs, Len(Http)) ELSE abs

\* C10: on a successful fetch that finds a non-empty image reference, the
\* returned image is the reference made absolute (// gains https:, / is
\* prefixed with the origin, other relative references are joined to the
\* origin with a slash) and never begins with http://.
C10_ImageAbsoluteHttps ==
  (/\ pc = "scrape_returned" /\ response.outcome = "ok"
   /\ FoundImageReference(variant, response.page) # <<>>)
  => /\ ~startsWith(meta.image, Http)
     /\ meta.image = NormalizedReference(FoundImageReference(variant, response.page),
                                         newURL(url).origin)

(***************************************************************************)
(* Claims about build and the rendered pages.                              *)
(***************************************************************************)
\* C3: in build, whatever each fetch does, the fetch pass runs to the end of
\* every collection (a failing link stops nothing) and attaches a metadata
\* sequence with one record per link, in link order.
C3_EveryLinkGetsMetadata ==
  /\ pc # "build_failed"
  /\ \A k \in 1..Len(collMetadata) :
       /\ Len(collMetadata[k]) = Len(collections[k].links)
       /\ \A i \in 1..Len(collMetadata[k]) : collMetadata[k][i].url = collections[k].links[i]
  /\ pc \in {"build_pages", "build_done"} => Len(collMetadata) = Len(collections)

HtmlEntities == {<<"&", "a", "m", "p", ";">>, <<"&", "l", "t", ";">>, <<"&", "g", "t", ";">>, <<"&", "q", "u", "o", "t", ";">>, <<"&", "#", "0", "3", "9", ";">>}

\* No character of interpolated text is a raw < > " ', and every & of
\* interpolated text begins an entity that escapeHtml writes.
NoRawSpecial(page) ==
  \A i \in 1..Len(page) :
    /\ page[i] \notin {"<", ">", "\"", "'"}
    /\ page[i] = "&" => \E e \in HtmlEntities : SubSeq(page, i, i + Len(e) - 1) = e

IsHtmlPath(path) == Len(path) >= 5 /\ SubSeq(path, Len(path) - 4, Len(path)) = <<".", "h", "t", "m", "l">>

\* C4: every text interpolated into a rendered page (names, titles,
\* descriptions, link and image URLs) is HTML-escaped for & < > " '.
C4_InterpolatedTextEscaped ==
  \A w \in 1..Len(writes) : IsHtmlPath(writes[w].path) => NoRawSpecial(writes[w].data)

\* C7: the output files of one build are written once each: index.html once,
\* one <slug>.html per collection, and no path twice.
C7_EachPathWrittenOnce ==
  pc = "build_done" =>
    /\ Len(writes) = Len(collections) + 2
    /\ \A i, j \in 1..Len(writes) : i # j => writes[i].path # writes[j].path

====
